---- MODULE Spec2Model ----
(***************************************************************************)
(* cloudflare-dyndns: the update-decision engine (CFUpdater), the record   *)
(* cache (CacheManager) and the CloudFlare wrapper, as a state machine.    *)
(* One behaviour is a sequence of invocations of the command on one host:  *)
(* each invocation loads the cache file, runs the IPv4 and/or IPv6 pass    *)
(* and persists the new cache.                                             *)
(***************************************************************************)
EXTENDS Integers, Sequences, FiniteSets, TLC

\* ------------------------------------------------------------------ bounds
\* Longest requested domain list (duplicates allowed).
MaxLen == 2
\* Invocations of the command in one behaviour of SpecRuns.
MaxRuns == 2
\* Longest list of IP services handed to get_ipv4 / get_ipv6.
MaxServices == 2

\* ------------------------------------------------------------- value sets
Domains == {"a", "b"}
IPv4Addresses == {"1.1.1.1", "2.2.2.2"}
IPv6Addresses == {"::1"}
Families == {"ipv4", "ipv6"}
RecordTypes == {"A", "AAAA"}
None == "None"

\* types.py ExitCode
OK == 0
UNKNOWN_ERROR == 1
IP_SERVICE_ERROR == 2
CLOUDFLARE_ERROR == 3

\* No result yet: the pass did not run or did not return.
NoResult == 0 - 1

\* types.py get_record_type: "A" if ip.version == 4 else "AAAA"
Version(ip) == IF ip \in IPv4Addresses THEN 4 ELSE 6
get_record_type_AllAAAA(ip) == "AAAA"
get_record_type(ip) == IF Version(ip) = 4 THEN "A" ELSE "AAAA"

\* updater.py update_ipv4 / update_ipv6: the field of the old and of the new
\* Cache whose IPCache is handed to the pass of family f
CacheFamily_AlwaysIPv4(f) == "ipv4"
CacheFamily(f) == f
\* updater.py update_ipv4 / update_ipv6: the record type handed to the pass
FamilyRecordType(f) == IF f = "ipv4" THEN "A" ELSE "AAAA"
\* ip_services.py get_ipv4 / get_ipv6 return an address of their own family
FamilyAddresses(f) == IF f = "ipv4" THEN IPv4Addresses ELSE IPv6Addresses

\* ---------------------------------------------------------- ip_services.py
\* What one IP service answers: the request fails (httpx.RequestError), the status
\* is an error, the parsed body is no IP address (None included), or it is one.
ServiceAnswers ==
    {"unreachable", "status", "unparseable"} \cup IPv4Addresses \cup IPv6Addresses
ProbeErrors == {"IPServiceError", "ValueError"}

\* _get_ip over the answers of the services in list order.
\* ipaddress.ip_address raises ValueError for a text that is no address, which
\* `except ipaddress.AddressValueError` does not catch.
RECURSIVE get_ip(_)
get_ip(answers) ==
    IF answers = <<>> THEN "IPServiceError"
    ELSE IF Head(answers) \in {"unreachable", "status"} THEN get_ip(Tail(answers))
    ELSE IF Head(answers) = "unparseable" THEN "ValueError"
    ELSE Head(answers)

\* get_ipv4 / get_ipv6: _get_ip, then the isinstance check of the family.
get_ipv4(answers) ==
    LET ipv4 == get_ip(answers)
    IN  IF ipv4 \in ProbeErrors THEN ipv4
        ELSE IF ipv4 \notin IPv4Addresses THEN "IPServiceError"
        ELSE ipv4
get_ipv6(answers) ==
    LET ipv6 == get_ip(answers)
    IN  IF ipv6 \in ProbeErrors THEN ipv6
        ELSE IF ipv6 \notin IPv6Addresses THEN "IPServiceError"
        ELSE ipv6
\* update_ipv4 / update_ipv6: the get_ip_func of the family
get_ip_func(f, answers) == IF f = "ipv4" THEN get_ipv4(answers) ELSE get_ipv6(answers)

\* --------------------------------------------------------------- cache.py
EmptyDomains == [d \in {} |-> 0]
\* class ZoneRecord
ZoneRecord(zone_id, record_id, proxied) ==
    [zone_id |-> zone_id, record_id |-> record_id, proxied |-> proxied]
\* class IPCache, default constructed
IPCacheDefault == [address |-> None, updated_domains |-> EmptyDomains]
\* class Cache, default constructed
CacheDefault == [ipv4 |-> IPCacheDefault, ipv6 |-> IPCacheDefault]
\* Cache.is_empty
is_empty(cache) == cache = CacheDefault

\* dict item assignment: m[k] = v
Put(m, k, v) == [x \in (DOMAIN m) \cup {k} |-> IF x = k THEN v ELSE m[x]]

\* model_dump_json: the address as its string or null, the dict as a JSON object
\* (a set of members).
DumpIPCache(c) ==
    [address |-> IF c.address = None THEN "null" ELSE c.address,
     updated_domains |->
        {<<d, c.updated_domains[d].zone_id, c.updated_domains[d].record_id,
           c.updated_domains[d].proxied>> : d \in DOMAIN c.updated_domains}]
model_dump_json(cache) ==
    [ipv4 |-> DumpIPCache(cache.ipv4), ipv6 |-> DumpIPCache(cache.ipv6)]
\* model_validate_json
ParseIPCache_DropsProxied(j) ==
    [address |-> IF j.address = "null" THEN None ELSE j.address,
     updated_domains |->
        [d \in {m[1] : m \in j.updated_domains} |->
            LET m == CHOOSE m \in j.updated_domains : m[1] = d
            IN  ZoneRecord(m[2], m[3], FALSE)]]
ParseIPCache(j) ==
    [address |-> IF j.address = "null" THEN None ELSE j.address,
     updated_domains |->
        [d \in {m[1] : m \in j.updated_domains} |->
            LET m == CHOOSE m \in j.updated_domains : m[1] = d
            IN  ZoneRecord(m[2], m[3], m[4])]]
model_validate_json(j) ==
    [ipv4 |-> ParseIPCache(j.ipv4), ipv6 |-> ParseIPCache(j.ipv6)]

\* The cache file: missing, unparseable, or holding a JSON document.
FileMissing == [state |-> "missing", json |-> model_dump_json(CacheDefault)]
FileInvalid == [state |-> "invalid", json |-> model_dump_json(CacheDefault)]
FileOf(cache) == [state |-> "json", json |-> model_dump_json(cache)]

\* ------------------------------------------------------------------ state
VARIABLES
    file,           \* the cache file on disk
    cf,             \* the provider's records: cf[d][t] > 0 is the id of the record of
                    \* type t of domain d; cf[d][t] <= 0: no such record, -cf[d][t] the
                    \* last id it had
    runs,           \* invocations started so far
    budget,         \* invocations still to come in this behaviour
    pc,             \* where the running invocation is: "exited" when none runs
    cfg,            \* the command line of the current (or last) invocation
    old_cache,      \* CFUpdater._old_cache
    new_cache,      \* CFUpdater._new_cache
    zones_memo,     \* lru_cache of get_all_zone_ids / get_zone_id holds the zone list
    records_memo,   \* lru_cache of _get_records, per domain
    fams,           \* the family passes still to run, the current one first
    current_ip,     \* per family, the address the probe returned in this invocation
    domains_to_update, \* per family, the stale domains in iteration order
    iterations,     \* per family, the loop iterations the pass has executed
    success,        \* the success flag of _update_domains
    result,         \* per family, the code the pass returned
    raised,         \* the exception that escaped the invocation, "none" if none
    last,           \* the provider calls of the latest loop iteration, in order
    ops,            \* per family, the kinds of provider call the pass has made
    wrote,          \* per family, the domains the pass has made a write call for
    statuses,       \* per family, how each executed iteration of _update_domains ended
    probe,          \* per family, how the address probe ended
    loaded,         \* what CacheManager.load found at the cache path
    getip,          \* SpecProbe: one call of get_ipv4 / get_ipv6 and its outcome
    saved,          \* whether this invocation wrote the cache file
    prev,           \* what the previous invocation did (history)
    exit_code       \* SpecCli: the exit code of main

vars == <<file, cf, runs, budget, pc, cfg, old_cache, new_cache, zones_memo,
          records_memo, fams, current_ip, domains_to_update, iterations, success,
          result, raised, last, ops, wrote, statuses, probe, saved, prev, loaded,
          getip, exit_code>>

\* ---------------------------------------------------- the requested inputs
\* Requested domain lists: non-empty (parse_domains_args rejects an empty list),
\* duplicates allowed.
SeqsUpTo(S, n) == UNION {[1..k -> S] : k \in 1..n}
DomainLists == SeqsUpTo(Domains, MaxLen)
FamilyLists == {<<"ipv4">>, <<"ipv6">>, <<"ipv4", "ipv6">>}
\* The command lines: --force reaches CFUpdater and, independently, CacheManager;
\* both families are requested together for lists of one domain only.
AllConfigs ==
    [domains : DomainLists, force : BOOLEAN, cache_force : BOOLEAN,
     proxied : BOOLEAN, delete_missing : BOOLEAN, debug : BOOLEAN,
     families : FamilyLists]
Configs ==
    {c \in AllConfigs :
        /\ c.cache_force => c.force
        /\ Len(c.families) = 2 => Len(c.domains) = 1}

Range(s) == {s[i] : i \in DOMAIN s}
\* The answers the services of a list can give, and what the probe makes of them.
AnswerLists == SeqsUpTo(ServiceAnswers, MaxServices)
ProbeOutcomes(f) == {get_ip_func(f, answers) : answers \in AnswerLists}
\* The orders in which a Python set can be iterated.
Orders(S) == {s \in [1..Cardinality(S) -> S] : Range(s) = S}

\* ----------------------------------------------------------- cloudflare.py
\* The zone of each domain at the provider (every modelled domain is hosted).
ZoneIdOf(d) == IF d = "a" THEN "za" ELSE "zb"
RecordIdAt(v) == IF v > 0 THEN v ELSE 0
NotFetched == [fetched |-> FALSE, A |-> 0, AAAA |-> 0]
Snapshot(d) == [fetched |-> TRUE, A |-> RecordIdAt(cf[d]["A"]),
                AAAA |-> RecordIdAt(cf[d]["AAAA"])]

\* One provider call as the pass sees it.
Call(op, domain, rtype, ip, zone_id, record_id, proxied, out) ==
    [op |-> op, domain |-> domain, rtype |-> rtype, ip |-> ip, zone_id |-> zone_id,
     record_id |-> record_id, proxied |-> proxied, out |-> out]

IsWrite(c) == c.op \in {"update_record", "create_record"}
IsCFError_AlsoFound(o) == o \in {"CloudFlareError", "notfound", "found"}
IsCFError(o) == o \in {"CloudFlareError", "notfound"}

\* get_zone_id: answered from the memo once the zone list was fetched; else the
\* request succeeds, is refused by the API (CloudFlareError) or fails otherwise
\* (httpx.RequestError, a body that is no JSON: not a CloudFlareError).
ZoneOutcomes(memo) ==
    IF memo THEN {"ok"} ELSE {"ok", "CloudFlareError", "Exception"}
\* get_record_id: answered from the memoised record list when there is one;
\* _get_records turns httpx.RequestError into CloudFlareError.
RecordOutcomes(m) ==
    IF m.fetched THEN {"ok"} ELSE {"ok", "CloudFlareError", "Exception"}
\* The record list get_record_id searches after a choice of RecordOutcomes = "ok".
RecordList(d) == IF records_memo[d].fetched THEN records_memo[d] ELSE Snapshot(d)
\* update_record: the PUT succeeds only for the ids the provider has.
UpdateOutcomes(d, t, zone_id, record_id) ==
    (IF zone_id = ZoneIdOf(d) /\ record_id > 0 /\ record_id = cf[d][t]
     THEN {"ok"} ELSE {}) \cup {"CloudFlareError", "Exception"}
\* create_record: the POST
CreateOutcomes == {"ok", "CloudFlareError", "Exception"}
FreshId(d, t) == IF cf[d][t] > 0 THEN cf[d][t] + 1 ELSE 1 - cf[d][t]
\* the DELETE request of delete_record
DeleteOutcomes(d, t, record_id) ==
    (IF record_id > 0 /\ record_id = cf[d][t] THEN {"ok"} ELSE {})
    \cup {"CloudFlareError", "Exception"}

\* -------------------------------------------------------------- updater.py
\* CFUpdater._get_domains: the possible iteration orders of what it returns
\* (self._domains is a list; missing_domains is a set).
GetDomains_IgnoresProxied(domains, force, proxied, ip, old) ==
    IF ~force /\ ip # old.address
    THEN {domains}
    ELSE Orders(Range(domains) \ DOMAIN old.updated_domains)
GetDomains_AlwaysFilters(domains, force, proxied, ip, old) ==
    Orders(Range(domains) \
           {d \in DOMAIN old.updated_domains :
               old.updated_domains[d].proxied = proxied})
GetDomains(domains, force, proxied, ip, old) ==
    IF ~force /\ ip # old.address
    THEN {domains}
    ELSE LET updated_domains ==
                {d \in DOMAIN old.updated_domains :
                    old.updated_domains[d].proxied = proxied}
             missing_domains == Range(domains) \ updated_domains
         IN  Orders(missing_domains)

\* _handle_update, lines 65-66: the IP caches of the family after
\* `if current_ip != old_cache.address: new_cache.address = current_ip`.
RecordAddress_Always(old, new, ip) ==
    [old |-> old, new |-> [new EXCEPT !.address = ip]]
RecordAddress_WritesOld(old, new, ip) ==
    [old |-> [old EXCEPT !.address = ip], new |-> new]
RecordAddress(old, new, ip) ==
    [old |-> old,
     new |-> IF ip # old.address THEN [new EXCEPT !.address = ip] ELSE new]

\* The outcomes the environment picks for the provider calls of one iteration.
Outcomes == {"ok", "CloudFlareError", "Exception"}
Picks == [fast : Outcomes, zone : Outcomes, rec : Outcomes, write : Outcomes]

\* A pick names the answers of the calls that are made only: for the calls that
\* are not made it holds "ok".
Unused(x, y, z) == x = "ok" /\ y = "ok" /\ z = "ok"

\* One iteration of the loop of CFUpdater._update_domains for `domain`, the
\* provider answering as in the pick o. status: "done" (the entry is written to
\* the new cache), "failed" (success = False; continue), "raised" (an exception
\* that is no CloudFlareError leaves the loop), "invalid" (the provider cannot
\* answer so).
UpdateDomain(domain, ip, old, proxied, o) ==
    LET t == get_record_type(ip)
        cached == domain \in DOMAIN old.updated_domains
        cache_record == IF cached THEN old.updated_domains[domain]
                        ELSE ZoneRecord("", 0, FALSE)
        c1 == IF cached
              THEN <<Call("update_record", domain, t, ip, cache_record.zone_id,
                          cache_record.record_id, proxied, o.fast)>>
              ELSE <<>>
        base == [calls |-> c1, status |-> "done",
                 zone_id |-> cache_record.zone_id,
                 record_id |-> cache_record.record_id,
                 cf |-> cf, zones_memo |-> zones_memo,
                 memo |-> records_memo[domain]]
        fastOK == ~cached \/ o.fast \in UpdateOutcomes(domain, t,
                                cache_record.zone_id, cache_record.record_id)
    IN
    IF ~fastOK \/ (~cached /\ o.fast # "ok") THEN [base EXCEPT !.status = "invalid"]
    ELSE IF cached /\ o.fast # "CloudFlareError"
        THEN IF ~Unused(o.zone, o.rec, o.write) THEN [base EXCEPT !.status = "invalid"]
             ELSE IF o.fast = "ok" THEN base
             ELSE [base EXCEPT !.status = "raised"]
    ELSE \* cache_record is None or update_record_failed
    LET c2 == Append(c1, Call("get_zone_id", domain, "-", "-",
                              IF o.zone = "ok" THEN ZoneIdOf(domain) ELSE "", 0,
                              FALSE, o.zone))
    IN
    IF o.zone \notin ZoneOutcomes(zones_memo) THEN [base EXCEPT !.status = "invalid"]
    ELSE IF o.zone # "ok"
        THEN IF ~Unused(o.rec, o.write, "ok") THEN [base EXCEPT !.status = "invalid"]
             ELSE IF o.zone = "CloudFlareError"
             THEN [base EXCEPT !.calls = c2, !.status = "failed"]
             ELSE [base EXCEPT !.calls = c2, !.status = "raised"]
    ELSE
    LET zone_id == ZoneIdOf(domain)
        list == RecordList(domain)
        rout == IF o.rec # "ok" THEN o.rec
                ELSE IF list[t] > 0 THEN "found" ELSE "notfound"
        memo2 == IF o.rec = "ok" THEN list ELSE records_memo[domain]
        record_id == IF rout = "found" THEN list[t] ELSE 0
        c3 == Append(c2, Call("get_record_id", domain, t, "-", "", record_id,
                              FALSE, rout))
        got == [base EXCEPT !.calls = c3, !.zones_memo = TRUE, !.memo = memo2,
                            !.zone_id = zone_id, !.record_id = record_id]
    IN
    IF o.rec \notin RecordOutcomes(records_memo[domain])
        THEN [base EXCEPT !.status = "invalid"]
    ELSE IF rout = "Exception"
        THEN IF ~Unused(o.write, "ok", "ok") THEN [base EXCEPT !.status = "invalid"]
             ELSE [got EXCEPT !.status = "raised"]
    ELSE IF IsCFError(rout)
    THEN \* except CloudFlareError: create_record
        LET new_id == IF o.write = "ok" THEN FreshId(domain, t) ELSE 0
            c4 == Append(c3, Call("create_record", domain, t, ip, "", new_id,
                                  proxied, o.write))
        IN  IF o.write \notin CreateOutcomes THEN [base EXCEPT !.status = "invalid"]
            ELSE IF o.write = "ok"
                THEN [got EXCEPT !.calls = c4, !.record_id = new_id,
                                 !.cf = [cf EXCEPT ![domain][t] = new_id]]
            ELSE IF o.write = "CloudFlareError"
                THEN [got EXCEPT !.calls = c4, !.status = "failed"]
            ELSE [got EXCEPT !.calls = c4, !.status = "raised"]
    ELSE \* else: update_record with the looked-up ids
        LET c4 == Append(c3, Call("update_record", domain, t, ip, zone_id, record_id,
                                  proxied, o.write))
        IN  IF o.write \notin UpdateOutcomes(domain, t, zone_id, record_id)
                THEN [base EXCEPT !.status = "invalid"]
            ELSE IF o.write = "ok" THEN [got EXCEPT !.calls = c4]
            ELSE IF o.write = "CloudFlareError"
                THEN [got EXCEPT !.calls = c4, !.status = "failed"]
            ELSE [got EXCEPT !.calls = c4, !.status = "raised"]

\* CloudFlareWrapper.delete_record(domain, record_type), the provider answering as
\* in the pick o. status "returned" or "raised" (exc: the exception that leaves it).
DeleteRecord(domain, t, o) ==
    LET base == [out |-> "absent", status |-> "returned", exc |-> "none",
                 record_id |-> 0, cf |-> cf, zones_memo |-> zones_memo,
                 memo |-> records_memo[domain]]
        list == RecordList(domain)
        rout == IF o.rec # "ok" THEN o.rec
                ELSE IF list[t] > 0 THEN "found" ELSE "notfound"
        got == [base EXCEPT !.zones_memo = TRUE,
                            !.memo = IF o.rec = "ok" THEN list ELSE @]
    IN
    IF o.zone \notin ZoneOutcomes(zones_memo) \/ o.fast # "ok"
        THEN [base EXCEPT !.status = "invalid"]
    ELSE IF o.zone # "ok" \* zone_id = self.get_zone_id(domain) raises
        THEN IF ~Unused(o.rec, o.write, "ok") THEN [base EXCEPT !.status = "invalid"]
             ELSE [base EXCEPT !.status = "raised", !.exc = o.zone, !.out = o.zone]
    ELSE IF o.rec \notin RecordOutcomes(records_memo[domain])
        THEN [base EXCEPT !.status = "invalid"]
    ELSE IF rout # "found" /\ ~Unused(o.write, "ok", "ok")
        THEN [base EXCEPT !.status = "invalid"]
    ELSE IF rout = "Exception"
        THEN [got EXCEPT !.status = "raised", !.exc = rout, !.out = rout]
    ELSE IF IsCFError(rout) \* except CloudFlareError: return
        THEN got
    ELSE IF o.write \notin DeleteOutcomes(domain, t, list[t])
        THEN [base EXCEPT !.status = "invalid"]
    ELSE IF o.write = "ok"
        THEN [got EXCEPT !.out = "deleted", !.record_id = list[t],
                         !.cf = [cf EXCEPT ![domain][t] = 0 - list[t]]]
    ELSE [got EXCEPT !.status = "raised", !.exc = o.write, !.out = o.write,
                     !.record_id = list[t]]

\* ----------------------------------------------------------------- actions
NoResults == [f \in Families |-> NoResult]
NoDomains == [f \in Families |-> <<>>]
NoIps == [f \in Families |-> None]
NoIterations == [f \in Families |-> 0]
Ops == {"update_record", "create_record", "get_zone_id", "get_record_id",
        "delete_record"}
NoOps == [f \in Families |-> {}]
NoProbes == [f \in Families |-> "none"]
WriteDomains(cs) == {cs[i].domain : i \in {j \in DOMAIN cs : cs[j].op \in {"update_record", "create_record"}}}
OpsOf(cs) == {cs[i].op : i \in DOMAIN cs}
WriteOps == {"update_record", "create_record"}

\* CacheManager._load, then CacheManager.load: the old cache it returns
LoadedCache(cache_force) ==
    IF cache_force THEN CacheDefault
    ELSE IF file.state = "json" THEN model_validate_json(file.json)
    ELSE CacheDefault

\* CacheManager.load, lines 64-68, and delete: an unparseable file is unlinked
FileAfterLoad_KeepsInvalid(cache_force, f) == f
FileAfterLoad(cache_force, f) ==
    IF ~cache_force /\ f.state = "invalid" THEN FileMissing ELSE f

\* What earlier invocations left behind: the records of the domains in `cached`
\* were created (id 1) and cached for both families by runs with the proxied flag
\* `proxied`; since then
\* the records of domain "a" were left alone ("none"), deleted and created again
\* ("recreated": a new id) or deleted ("deleted") in the provider's dashboard.
\* pre: the records of the other domains exist at the provider, made by hand.
\* "corrupted": nothing is cached and the cache file is not a cache document.
Seeds ==
    [cached : {{}}, changed : {"none"}, pre : BOOLEAN, proxied : {FALSE}]
    \cup [cached : {{}}, changed : {"corrupted"}, pre : {FALSE}, proxied : {FALSE}]
    \cup [cached : {{"a"}}, changed : {"none", "recreated", "deleted"},
          pre : {FALSE}, proxied : {FALSE}]
    \cup [cached : {{"a"}, {"a", "b"}}, changed : {"none"}, pre : {FALSE},
          proxied : BOOLEAN]
SeedAddress(f) == IF f = "ipv4" THEN "1.1.1.1" ELSE "::1"
SeedIPCache(f, s) ==
    [address |-> SeedAddress(f),
     updated_domains |-> [d \in s.cached |-> ZoneRecord(ZoneIdOf(d), 1, s.proxied)]]
SeedFile(s) ==
    IF s.changed = "corrupted" THEN FileInvalid
    ELSE IF s.cached = {} THEN FileMissing
    ELSE FileOf([ipv4 |-> SeedIPCache("ipv4", s), ipv6 |-> SeedIPCache("ipv6", s)])
SeedProvider(s) ==
    [d \in Domains |-> [t \in RecordTypes |->
        IF d \notin s.cached THEN (IF s.pre THEN 1 ELSE 0)
        ELSE IF d # "a" \/ s.changed = "none" THEN 1
        ELSE IF s.changed = "recreated" THEN 2
        ELSE 0 - 1]]

InitWith(seeds, configs, n) ==
    /\ \E s \in seeds : file = SeedFile(s) /\ cf = SeedProvider(s)
    /\ cfg \in configs
    /\ runs = 0
    /\ budget = n
    /\ pc = "exited"
    /\ old_cache = CacheDefault
    /\ new_cache = CacheDefault
    /\ zones_memo = FALSE
    /\ records_memo = [d \in Domains |-> NotFetched]
    /\ fams = <<>>
    /\ current_ip = NoIps
    /\ domains_to_update = NoDomains
    /\ iterations = NoIterations
    /\ success = TRUE
    /\ result = NoResults
    /\ raised = "none"
    /\ last = <<>>
    /\ ops = NoOps
    /\ wrote = NoOps
    /\ statuses = NoDomains
    /\ probe = NoProbes
    /\ saved = FALSE
    /\ prev = [current_ip |-> NoIps, result |-> NoResults, raised |-> "none"]
    /\ loaded = "none"

\* One invocation of the command, from every state earlier invocations left.
NoGetIp == [family |-> "ipv4", answers |-> <<>>, out |-> "none"]
Init == InitWith(Seeds, Configs, 1) /\ getip = NoGetIp /\ exit_code = NoResult

\* The same command line run MaxRuns times in a row (a scheduler's job): IPv4
\* only, without --force and --debug.
RunDomainLists == {<<"a">>, <<"a", "b">>}
RunConfigs ==
    {c \in Configs : /\ c.domains \in RunDomainLists
                     /\ ~c.force /\ ~c.debug /\ ~c.proxied
                     /\ c.families = <<"ipv4">>}
RunSeeds == {s \in Seeds : ~s.pre /\ ~s.proxied /\ s.changed \in {"none", "recreated"}}
InitRuns ==
    InitWith(RunSeeds, RunConfigs, MaxRuns) /\ getip = NoGetIp /\ exit_code = NoResult

\* One call of get_ipv4 or get_ipv6 with a list of services, outside any run.
InitProbe ==
    /\ InitWith({s \in Seeds : s.cached = {} /\ ~s.pre /\ s.changed = "none"},
                {c \in RunConfigs : c.domains = <<"a">> /\ ~c.delete_missing}, 0)
    /\ getip \in [family : Families, answers : AnswerLists, out : {"pending"}]
    /\ exit_code = NoResult

\* main: a new process. CacheManager(cache_file, force).load() gives the old and
\* the new cache (an invalid file is deleted); CFUpdater is constructed; the lru
\* caches of the new CloudFlareWrapper are empty.
Invoke ==
    /\ pc = "exited"
    /\ budget > 0
    /\ budget' = budget - 1
    /\ runs' = runs + 1
    /\ old_cache' = LoadedCache(cfg.cache_force)
    /\ new_cache' = CacheDefault
    /\ file' = FileAfterLoad(cfg.cache_force, file)
    /\ loaded' = IF cfg.cache_force THEN "forced" ELSE file.state
    /\ zones_memo' = FALSE
    /\ records_memo' = [d \in Domains |-> NotFetched]
    /\ fams' = cfg.families
    /\ current_ip' = NoIps
    /\ domains_to_update' = NoDomains
    /\ iterations' = NoIterations
    /\ success' = TRUE
    /\ result' = NoResults
    /\ raised' = "none"
    /\ last' = <<>>
    /\ ops' = NoOps
    /\ wrote' = NoOps
    /\ statuses' = NoDomains
    /\ probe' = NoProbes
    /\ saved' = FALSE
    /\ prev' = [current_ip |-> current_ip, result |-> result, raised |-> raised]
    /\ pc' = "probe"
    /\ UNCHANGED <<cf, cfg, getip, exit_code>>

\* _handle_update returns `code` for family f: main records it and goes on to the
\* next family, or to the end of the run.
Return_Hangs(f, code) ==
    /\ result' = result
    /\ fams' = fams
    /\ pc' = "hung"
    /\ raised' = raised
Return_Failure(f, code) ==
    /\ result' = [result EXCEPT ![f] = 2]
    /\ fams' = Tail(fams)
    /\ pc' = IF Tail(fams) = <<>> THEN "persist" ELSE "probe"
    /\ raised' = raised
Return(f, code) ==
    /\ result' = [result EXCEPT ![f] = code]
    /\ fams' = Tail(fams)
    /\ pc' = IF Tail(fams) = <<>> THEN "persist" ELSE "probe"
    /\ raised' = raised

\* An exception leaves _handle_update and, unhandled, the process.
Raise(f, exc) ==
    /\ raised' = exc
    /\ pc' = "exited"
    /\ UNCHANGED <<result, fams>>

\* _handle_update, line 56: `if not self._delete_missing: return 3`
DeletesMissing_Always(delete_missing) == TRUE
DeletesMissing(delete_missing) == delete_missing

\* _handle_update, lines 52-57: the probe raises IPServiceError and
\* --delete-missing is off.
ProbeFails ==
    /\ pc = "probe"
    /\ "IPServiceError" \in ProbeOutcomes(Head(fams))
    /\ ~DeletesMissing(cfg.delete_missing)
    /\ Return(Head(fams), 3)
    /\ probe' = [probe EXCEPT ![Head(fams)] = "IPServiceError"]
    /\ last' = <<>>
    /\ UNCHANGED <<file, cf, runs, budget, cfg, old_cache, new_cache, zones_memo,
                   records_memo, current_ip, domains_to_update, iterations, success,
                   ops, wrote, statuses, saved, prev, loaded, getip,
                   exit_code>>

\* _handle_update, lines 52-59: the probe raises IPServiceError and
\* --delete-missing is on: the loop over self._domains starts.
ProbeFailsDeleteMissing ==
    /\ pc = "probe"
    /\ "IPServiceError" \in ProbeOutcomes(Head(fams))
    /\ DeletesMissing(cfg.delete_missing)
    /\ pc' = "deleting"
    /\ probe' = [probe EXCEPT ![Head(fams)] = "IPServiceError"]
    /\ last' = <<>>
    /\ UNCHANGED <<file, cf, runs, budget, cfg, old_cache, new_cache, zones_memo,
                   records_memo, fams, current_ip, domains_to_update, iterations,
                   success, result, raised, ops, wrote, statuses, saved, prev, loaded, getip,
                   exit_code>>

\* _handle_update, lines 59-63: one delete_record call of the loop; after the last
\* one the pass returns 0. An exception of delete_record is not caught.
DeleteMissing ==
    /\ pc = "deleting"
    /\ LET f == Head(fams)
           domain == cfg.domains[iterations[f] + 1]
           t == FamilyRecordType(f)
       IN  \E o \in Picks :
             LET r == DeleteRecord(domain, t, o)
                 c == <<Call("delete_record", domain, t, "-", "", r.record_id,
                             FALSE, r.out)>>
             IN  /\ r.status # "invalid"
                 /\ last' = c
                 /\ ops' = [ops EXCEPT ![f] = @ \cup OpsOf(c)]
                 /\ iterations' = [iterations EXCEPT ![f] = @ + 1]
                 /\ cf' = r.cf
                 /\ zones_memo' = r.zones_memo
                 /\ records_memo' = [records_memo EXCEPT ![domain] = r.memo]
                 /\ IF r.status = "raised"
                    THEN Raise(f, r.exc)
                    ELSE IF iterations[f] + 1 = Len(cfg.domains)
                    THEN Return(f, 0)
                    ELSE UNCHANGED <<pc, fams, result, raised>>
    /\ UNCHANGED <<file, runs, budget, cfg, old_cache, new_cache, current_ip,
                   domains_to_update, success, wrote, statuses, probe, saved, prev, loaded, getip,
                   exit_code>>

\* _handle_update, lines 52-54: the probe raises an exception that is no
\* IPServiceError; no except clause is in its way.
ProbeRaises ==
    /\ pc = "probe"
    /\ \E exc \in ProbeOutcomes(Head(fams)) \cap (ProbeErrors \ {"IPServiceError"}) :
         /\ probe' = [probe EXCEPT ![Head(fams)] = exc]
         /\ Raise(Head(fams), exc)
    /\ last' = <<>>
    /\ UNCHANGED <<file, cf, runs, budget, cfg, old_cache, new_cache, zones_memo,
                   records_memo, current_ip, domains_to_update, iterations, success,
                   ops, wrote, statuses, saved, prev, loaded, getip,
                   exit_code>>

\* _handle_update, lines 53 and 65-69: the probe returns current_ip; the address is
\* recorded if it changed and the stale domains are selected.
ProbeSucceeds ==
    /\ pc = "probe"
    /\ LET f == Head(fams)
       IN  \E ip \in ProbeOutcomes(f) \ ProbeErrors :
           \E todo \in GetDomains(cfg.domains, cfg.force, cfg.proxied, ip,
                                  old_cache[CacheFamily(f)]) :
             /\ current_ip' = [current_ip EXCEPT ![f] = ip]
             /\ probe' = [probe EXCEPT ![f] = "ok"]
             /\ LET k == CacheFamily(f)
                    r == RecordAddress(old_cache[k], new_cache[k], ip)
                IN  /\ old_cache' = [old_cache EXCEPT ![k] = r.old]
                    /\ new_cache' = [new_cache EXCEPT ![k] = r.new]
             /\ domains_to_update' = [domains_to_update EXCEPT ![f] = todo]
             /\ success' = TRUE
             /\ IF todo = <<>>
                THEN Return(f, 0)
                ELSE pc' = "updating" /\ UNCHANGED <<fams, result, raised>>
    /\ last' = <<>>
    /\ UNCHANGED <<file, cf, runs, budget, cfg, zones_memo, records_memo,
                   iterations, ops, wrote, statuses, saved, prev, loaded, getip,
                   exit_code>>

\* The code _handle_update returns when _update_domains has returned `ok`
\* (lines 87-90).
LoopResult_AlwaysOK(ok) == 0
LoopResult(ok) == IF ok THEN 0 ELSE 2
\* The code _handle_update returns for an exception of _update_domains that it
\* does not re-raise (lines 75-85).
ExceptResult_Provider(exc) == 2
ExceptResult(exc) == IF exc = "CloudFlareError" THEN 2 ELSE 1

\* _update_domains, lines 173-176: the entry written to the new cache for a domain
\* that succeeded holds the ids the iteration ended with.
CacheEntry_KeepsCached(old, domain, zone_id, record_id, proxied) ==
    IF domain \in DOMAIN old.updated_domains
    THEN ZoneRecord(old.updated_domains[domain].zone_id,
                    old.updated_domains[domain].record_id, proxied)
    ELSE ZoneRecord(zone_id, record_id, proxied)
CacheEntry_KeepsProxied(old, domain, zone_id, record_id, proxied) ==
    IF domain \in DOMAIN old.updated_domains
    THEN ZoneRecord(zone_id, record_id, old.updated_domains[domain].proxied)
    ELSE ZoneRecord(zone_id, record_id, proxied)
CacheEntry(old, domain, zone_id, record_id, proxied) ==
    ZoneRecord(zone_id, record_id, proxied)

\* _update_domains, one iteration of its loop (lines 128-176), and, after the last
\* one or on an exception, the rest of _handle_update (lines 71-90).
UpdateDomains ==
    /\ pc = "updating"
    /\ LET f == Head(fams)
           domain == domains_to_update[f][iterations[f] + 1]
       IN  \E o \in Picks :
             LET k == CacheFamily(f)
                 r == UpdateDomain(domain, current_ip[f], old_cache[k],
                                   cfg.proxied, o)
                 ok == success /\ r.status # "failed"
             IN  /\ r.status # "invalid"
                 /\ last' = r.calls
                 /\ ops' = [ops EXCEPT ![f] = @ \cup OpsOf(r.calls)]
                 /\ wrote' = [wrote EXCEPT ![f] = @ \cup WriteDomains(r.calls)]
                 /\ statuses' = [statuses EXCEPT ![f] = Append(@, r.status)]
                 /\ iterations' = [iterations EXCEPT ![f] = @ + 1]
                 /\ cf' = r.cf
                 /\ zones_memo' = r.zones_memo
                 /\ records_memo' = [records_memo EXCEPT ![domain] = r.memo]
                 /\ new_cache' =
                        IF r.status = "done"
                        THEN [new_cache EXCEPT ![k].updated_domains =
                                Put(@, domain,
                                    CacheEntry(old_cache[k], domain, r.zone_id,
                                               r.record_id, cfg.proxied))]
                        ELSE new_cache
                 /\ success' = ok
                 /\ IF r.status = "raised"
                    THEN IF cfg.debug
                         THEN Raise(f, "Exception")
                         ELSE Return(f, ExceptResult("Exception"))
                    ELSE IF iterations[f] + 1 = Len(domains_to_update[f])
                    THEN Return(f, LoopResult(ok))
                    ELSE UNCHANGED <<pc, fams, result, raised>>
    /\ UNCHANGED <<file, runs, budget, cfg, old_cache, current_ip,
                   domains_to_update, probe, saved, prev, loaded, getip,
                   exit_code>>

\* The end of the run: the new cache is written if it is not empty and differs
\* from the old one.
Persist ==
    /\ pc = "persist"
    /\ LET write == ~is_empty(new_cache) /\ new_cache # old_cache
       IN  /\ file' = IF write THEN FileOf(new_cache) ELSE file
           /\ saved' = write
    /\ pc' = "exited"
    /\ UNCHANGED <<cf, runs, budget, cfg, old_cache, new_cache, zones_memo,
                   records_memo, fams, current_ip, domains_to_update, iterations,
                   success, result, raised, last, ops, wrote, statuses, probe,
                   prev, loaded, getip,
                   exit_code>>

Next ==
    \/ Invoke
    \/ ProbeFails
    \/ ProbeFailsDeleteMissing
    \/ ProbeRaises
    \/ DeleteMissing
    \/ ProbeSucceeds
    \/ UpdateDomains
    \/ Persist

\* get_ipv4(services) / get_ipv6(services) returns or raises.
GetIp ==
    /\ getip.out = "pending"
    /\ getip' = [getip EXCEPT !.out = get_ip_func(getip.family, getip.answers)]
    /\ UNCHANGED <<file, cf, runs, budget, pc, cfg, old_cache, new_cache, zones_memo,
                   records_memo, fams, current_ip, domains_to_update, iterations,
                   success, result, raised, last, ops, wrote, statuses, probe,
                   saved, prev, loaded, exit_code>>

NextProbe == GetIp

Spec == Init /\ [][Next]_vars
\* One invocation without --force and --proxied, from no cache file or from
\* the file of an earlier run; the invocation is one sequential process, so a
\* step that is possible is taken.
LiveConfigs == {c \in Configs : ~c.force /\ ~c.proxied}
LiveSeeds ==
    {s \in Seeds : ~s.pre /\ ~s.proxied /\ s.changed = "none"
                   /\ s.cached \in {{}, {"a"}}}
InitLive == InitWith(LiveSeeds, LiveConfigs, 1) /\ getip = NoGetIp /\ exit_code = NoResult
SpecLive == InitLive /\ [][Next]_vars /\ WF_vars(Next)
SpecRuns == InitRuns /\ [][Next]_vars
SpecProbe == InitProbe /\ [][NextProbe]_vars

\* ------------------------------------------------- invocation after invocation
\* The command run again and again with the same arguments on the file the
\* previous invocation left (a cron job or a systemd timer). The first
\* invocations meet any probe and provider; from invocation MaxRuns on the
\* probe returns the address of SeedAddress and the provider works: a call fails
\* only when update_record is given ids the provider does not have.
Stable == runs >= MaxRuns
ConvergeConfigs ==
    {c \in Configs : /\ c.domains = <<"a">>
                     /\ ~c.force /\ ~c.debug /\ ~c.proxied /\ ~c.delete_missing}
ConvergeSeeds == {s \in Seeds : s.cached = {} /\ ~s.pre /\ s.changed = "none"}
InitConverge ==
    InitWith(ConvergeSeeds, ConvergeConfigs, 1) /\ getip = NoGetIp
    /\ exit_code = NoResult

\* Invoke, for an invocation that is followed by another one.
Reinvoke ==
    /\ pc = "exited"
    /\ budget' = budget
    /\ runs' = IF runs < MaxRuns THEN runs + 1 ELSE runs
    /\ old_cache' = LoadedCache(cfg.cache_force)
    /\ new_cache' = CacheDefault
    /\ file' = FileAfterLoad(cfg.cache_force, file)
    /\ loaded' = IF cfg.cache_force THEN "forced" ELSE file.state
    /\ zones_memo' = FALSE
    /\ records_memo' = [d \in Domains |-> NotFetched]
    /\ fams' = cfg.families
    /\ current_ip' = NoIps
    /\ domains_to_update' = NoDomains
    /\ iterations' = NoIterations
    /\ success' = TRUE
    /\ result' = NoResults
    /\ raised' = "none"
    /\ last' = <<>>
    /\ ops' = NoOps
    /\ wrote' = NoOps
    /\ statuses' = NoDomains
    /\ probe' = NoProbes
    /\ saved' = FALSE
    /\ prev' = [current_ip |-> current_ip, result |-> result, raised |-> raised]
    /\ pc' = "probe"
    /\ UNCHANGED <<cf, cfg, getip, exit_code>>

\* The provider call c answered as a working provider does.
Answered(c) ==
    \/ c.out \in {"ok", "found", "notfound"}
    \/ /\ c.op = "update_record"
       /\ "ok" \notin UpdateOutcomes(c.domain, c.rtype, c.zone_id, c.record_id)

NextConverge ==
    \/ Reinvoke
    \/ ~Stable /\ ProbeFails
    \/ ~Stable /\ ProbeRaises
    \/ ProbeSucceeds
        /\ (Stable => current_ip'[Head(fams)] = SeedAddress(Head(fams)))
    \/ UpdateDomains /\ (Stable => \A i \in DOMAIN last' : Answered(last'[i]))
    \/ Persist

SpecConverge == InitConverge /\ [][NextConverge]_vars /\ WF_vars(NextConverge)

\* ------------------------------------------------------------------ cli.py
\* cli.get_domains: the possible iteration orders of what it returns, and the
\* address of the IP cache afterwards (line 50 is reached with --force or with a
\* changed address).
CliGetDomains(domains, force, proxied, ip, ip_cache) ==
    IF ~force /\ ip = ip_cache.address
    THEN LET updated_domains ==
                {d \in DOMAIN ip_cache.updated_domains :
                    ip_cache.updated_domains[d].proxied = proxied}
             missing_domains == Range(domains) \ updated_domains
         IN  [todo : Orders(missing_domains), address : {ip_cache.address}]
    ELSE [todo : {domains}, address : {ip}]

\* One iteration of the loop of cli.update_domains for `domain`, the provider
\* answering as in the pick o. The except clauses around update_record and
\* create_record name CloudFlare.exceptions.CloudFlareAPIError, which the wrapper
\* of cloudflare.py never raises: its CloudFlareError leaves the loop (status
\* "raised", exc the exception).
CliUpdateDomain(domain, ip, ip_cache, proxied, o) ==
    LET t == get_record_type(ip)
        cached == domain \in DOMAIN ip_cache.updated_domains
        cache_record == IF cached THEN ip_cache.updated_domains[domain]
                        ELSE ZoneRecord("", 0, FALSE)
        base == [calls |-> <<>>, status |-> "done", exc |-> "none",
                 zone_id |-> cache_record.zone_id,
                 record_id |-> cache_record.record_id,
                 cf |-> cf, zones_memo |-> zones_memo,
                 memo |-> records_memo[domain]]
        invalid == [base EXCEPT !.status = "invalid"]
    IN
    IF cached
    THEN LET c1 == <<Call("update_record", domain, t, ip, cache_record.zone_id,
                          cache_record.record_id, proxied, o.fast)>>
         IN  IF o.fast \notin UpdateOutcomes(domain, t, cache_record.zone_id,
                                             cache_record.record_id)
                \/ ~Unused(o.zone, o.rec, o.write)
             THEN invalid
             ELSE IF o.fast = "ok" THEN [base EXCEPT !.calls = c1]
             ELSE [base EXCEPT !.calls = c1, !.status = "raised", !.exc = o.fast]
    ELSE
    LET c2 == <<Call("get_zone_id", domain, "-", "-",
                     IF o.zone = "ok" THEN ZoneIdOf(domain) ELSE "", 0, FALSE,
                     o.zone)>>
    IN
    IF o.fast # "ok" \/ o.zone \notin ZoneOutcomes(zones_memo) THEN invalid
    ELSE IF o.zone # "ok"
        THEN IF ~Unused(o.rec, o.write, "ok") THEN invalid
             ELSE IF o.zone = "CloudFlareError"
             THEN [base EXCEPT !.calls = c2, !.status = "failed"]
             ELSE [base EXCEPT !.calls = c2, !.status = "raised", !.exc = o.zone]
    ELSE
    LET zone_id == ZoneIdOf(domain)
        list == RecordList(domain)
        rout == IF o.rec # "ok" THEN o.rec
                ELSE IF list[t] > 0 THEN "found" ELSE "notfound"
        record_id == IF rout = "found" THEN list[t] ELSE 0
        c3 == Append(c2, Call("get_record_id", domain, t, "-", "", record_id,
                              FALSE, rout))
        got == [base EXCEPT !.calls = c3, !.zones_memo = TRUE,
                            !.memo = IF o.rec = "ok" THEN list ELSE @,
                            !.zone_id = zone_id, !.record_id = record_id]
    IN
    IF o.rec \notin RecordOutcomes(records_memo[domain]) THEN invalid
    ELSE IF rout = "Exception"
        THEN IF ~Unused(o.write, "ok", "ok") THEN invalid
             ELSE [got EXCEPT !.status = "raised", !.exc = rout]
    ELSE IF IsCFError(rout)
    THEN LET new_id == IF o.write = "ok" THEN FreshId(domain, t) ELSE 0
             c4 == Append(c3, Call("create_record", domain, t, ip, "", new_id,
                                   proxied, o.write))
         IN  IF o.write \notin CreateOutcomes THEN invalid
             ELSE IF o.write = "ok"
                 THEN [got EXCEPT !.calls = c4, !.record_id = new_id,
                                  !.cf = [cf EXCEPT ![domain][t] = new_id]]
             ELSE [got EXCEPT !.calls = c4, !.status = "raised", !.exc = o.write]
    ELSE LET c4 == Append(c3, Call("update_record", domain, t, ip, zone_id,
                                   record_id, proxied, o.write))
         IN  IF o.write \notin UpdateOutcomes(domain, t, zone_id, record_id)
                 THEN invalid
             ELSE IF o.write = "ok" THEN [got EXCEPT !.calls = c4]
             ELSE [got EXCEPT !.calls = c4, !.status = "raised", !.exc = o.write]

\* main, lines 248-255: the exit code for the set of codes the passes returned
Min(S) == CHOOSE x \in S : \A y \in S : x <= y
Max(S) == CHOOSE x \in S : \A y \in S : x >= y
final_exit_code_Max(exit_codes) ==
    IF exit_codes \ {0} = {} THEN 0 ELSE Max(exit_codes \ {0})
final_exit_code(exit_codes) ==
    IF exit_codes \ {0} = {} THEN 0 ELSE Min(exit_codes \ {0})

\* The command line of cli.main has one --force flag.
CliConfigs == {c \in Configs : c.cache_force = c.force}
CliSeeds == {s \in Seeds : ~s.proxied}
InitCli == InitWith(CliSeeds, CliConfigs, 1) /\ getip = NoGetIp /\ exit_code = NoResult

\* main, lines 223-228. load_cache: without --force CacheManager.load() is called
\* (an unparseable file is deleted) and its result, the pair (old, new) of
\* cache.py, is taken for the cache, so that `cache.ipv4` / `cache.ipv6` raises
\* AttributeError; with --force the file is not read and the cache is Cache().
CliInvoke ==
    /\ pc = "exited"
    /\ budget > 0
    /\ budget' = budget - 1
    /\ runs' = runs + 1
    /\ file' = IF cfg.force THEN file ELSE FileAfterLoad(FALSE, file)
    /\ loaded' = IF cfg.force THEN "forced" ELSE file.state
    /\ old_cache' = CacheDefault
    /\ new_cache' = CacheDefault
    /\ zones_memo' = FALSE
    /\ records_memo' = [d \in Domains |-> NotFetched]
    /\ current_ip' = NoIps
    /\ domains_to_update' = NoDomains
    /\ iterations' = NoIterations
    /\ success' = TRUE
    /\ result' = NoResults
    /\ last' = <<>>
    /\ ops' = NoOps
    /\ wrote' = NoOps
    /\ statuses' = NoDomains
    /\ probe' = NoProbes
    /\ saved' = FALSE
    /\ prev' = [current_ip |-> current_ip, result |-> result, raised |-> raised]
    /\ IF cfg.force
       THEN pc' = "cli_probe" /\ fams' = cfg.families /\ raised' = "none"
       ELSE pc' = "exited" /\ fams' = <<>> /\ raised' = "AttributeError"
    /\ UNCHANGED <<cf, cfg, getip, exit_code>>

\* handle_update returns `code` for family f (main, lines 230-242).
CliReturn_SkipsRest(f, code) ==
    /\ result' = [result EXCEPT ![f] = code]
    /\ fams' = Tail(fams)
    /\ pc' = "cli_save"
    /\ raised' = raised
CliReturn(f, code) ==
    /\ result' = [result EXCEPT ![f] = code]
    /\ fams' = Tail(fams)
    /\ pc' = IF Tail(fams) = <<>> THEN "cli_save" ELSE "cli_probe"
    /\ raised' = raised

\* handle_update, lines 271-276: the probe raises IPServiceError, no
\* --delete-missing.
CliProbeFails ==
    /\ pc = "cli_probe"
    /\ "IPServiceError" \in ProbeOutcomes(Head(fams))
    /\ ~cfg.delete_missing
    /\ CliReturn(Head(fams), 3)
    /\ probe' = [probe EXCEPT ![Head(fams)] = "IPServiceError"]
    /\ last' = <<>>
    /\ UNCHANGED <<file, cf, runs, budget, cfg, old_cache, new_cache, zones_memo,
                   records_memo, current_ip, domains_to_update, iterations, success,
                   ops, wrote, statuses, saved, prev, loaded, getip, exit_code>>

\* handle_update, lines 271-278: the probe raises IPServiceError with
\* --delete-missing.
CliProbeFailsDeleteMissing ==
    /\ pc = "cli_probe"
    /\ "IPServiceError" \in ProbeOutcomes(Head(fams))
    /\ cfg.delete_missing
    /\ pc' = "cli_deleting"
    /\ probe' = [probe EXCEPT ![Head(fams)] = "IPServiceError"]
    /\ last' = <<>>
    /\ UNCHANGED <<file, cf, runs, budget, cfg, old_cache, new_cache, zones_memo,
                   records_memo, fams, current_ip, domains_to_update, iterations,
                   success, result, raised, ops, wrote, statuses, saved, prev,
                   loaded, getip, exit_code>>

\* handle_update, line 272: the probe raises an exception that is no
\* IPServiceError.
CliProbeRaises ==
    /\ pc = "cli_probe"
    /\ \E exc \in ProbeOutcomes(Head(fams)) \cap (ProbeErrors \ {"IPServiceError"}) :
         /\ probe' = [probe EXCEPT ![Head(fams)] = exc]
         /\ Raise(Head(fams), exc)
    /\ last' = <<>>
    /\ UNCHANGED <<file, cf, runs, budget, cfg, old_cache, new_cache, zones_memo,
                   records_memo, current_ip, domains_to_update, iterations, success,
                   ops, wrote, statuses, saved, prev, loaded, getip, exit_code>>

\* handle_update, lines 278-283: one delete_record call of the loop; after the
\* last one ip_cache.clear() and return 0.
CliDeleteMissing ==
    /\ pc = "cli_deleting"
    /\ LET f == Head(fams)
           domain == cfg.domains[iterations[f] + 1]
           t == FamilyRecordType(f)
       IN  \E o \in Picks :
             LET r == DeleteRecord(domain, t, o)
                 c == <<Call("delete_record", domain, t, "-", "", r.record_id,
                             FALSE, r.out)>>
                 finished == r.status # "raised"
                                /\ iterations[f] + 1 = Len(cfg.domains)
             IN  /\ r.status # "invalid"
                 /\ last' = c
                 /\ ops' = [ops EXCEPT ![f] = @ \cup OpsOf(c)]
                 /\ iterations' = [iterations EXCEPT ![f] = @ + 1]
                 /\ cf' = r.cf
                 /\ zones_memo' = r.zones_memo
                 /\ records_memo' = [records_memo EXCEPT ![domain] = r.memo]
                 /\ new_cache' = IF finished
                                 THEN [new_cache EXCEPT ![f] = IPCacheDefault]
                                 ELSE new_cache
                 /\ IF r.status = "raised"
                    THEN Raise(f, r.exc)
                    ELSE IF finished
                    THEN CliReturn(f, 0)
                    ELSE UNCHANGED <<pc, fams, result, raised>>
    /\ UNCHANGED <<file, runs, budget, cfg, old_cache, current_ip,
                   domains_to_update, success, wrote, statuses, probe, saved, prev,
                   loaded, getip, exit_code>>

\* handle_update, lines 272 and 285-288: the probe answers, get_domains chooses
\* the domains (and sets ip_cache.address); nothing to update returns 0.
CliProbeSucceeds ==
    /\ pc = "cli_probe"
    /\ LET f == Head(fams)
       IN  \E ip \in ProbeOutcomes(f) \ ProbeErrors :
           \E g \in CliGetDomains(cfg.domains, cfg.force, cfg.proxied, ip,
                                  new_cache[f]) :
             /\ current_ip' = [current_ip EXCEPT ![f] = ip]
             /\ probe' = [probe EXCEPT ![f] = "ok"]
             /\ new_cache' = [new_cache EXCEPT ![f].address = g.address]
             /\ domains_to_update' = [domains_to_update EXCEPT ![f] = g.todo]
             /\ success' = TRUE
             /\ IF g.todo = <<>>
                THEN CliReturn(f, 0)
                ELSE pc' = "cli_updating" /\ UNCHANGED <<fams, result, raised>>
    /\ last' = <<>>
    /\ UNCHANGED <<file, cf, runs, budget, cfg, old_cache, zones_memo, records_memo,
                   iterations, ops, wrote, statuses, saved, prev, loaded, getip,
                   exit_code>>

\* One iteration of the loop of cli.update_domains and what handle_update makes
\* of its end (lines 289-306): an exception is re-raised with --debug and
\* otherwise returns 2 (CloudFlareError) or 1; the loop's end returns 0 or 2.
CliUpdateDomains ==
    /\ pc = "cli_updating"
    /\ LET f == Head(fams)
           domain == domains_to_update[f][iterations[f] + 1]
       IN  \E o \in Picks :
             LET r == CliUpdateDomain(domain, current_ip[f], new_cache[f],
                                      cfg.proxied, o)
                 ok == success /\ r.status # "failed"
             IN  /\ r.status # "invalid"
                 /\ last' = r.calls
                 /\ ops' = [ops EXCEPT ![f] = @ \cup OpsOf(r.calls)]
                 /\ wrote' = [wrote EXCEPT ![f] = @ \cup WriteDomains(r.calls)]
                 /\ statuses' = [statuses EXCEPT ![f] = Append(@, r.status)]
                 /\ iterations' = [iterations EXCEPT ![f] = @ + 1]
                 /\ cf' = r.cf
                 /\ zones_memo' = r.zones_memo
                 /\ records_memo' = [records_memo EXCEPT ![domain] = r.memo]
                 /\ new_cache' =
                        IF r.status = "done"
                        THEN [new_cache EXCEPT ![f].updated_domains =
                                Put(@, domain,
                                    ZoneRecord(r.zone_id, r.record_id, cfg.proxied))]
                        ELSE new_cache
                 /\ success' = ok
                 /\ IF r.status = "raised"
                    THEN IF cfg.debug
                         THEN Raise(f, r.exc)
                         ELSE CliReturn(f, IF r.exc = "CloudFlareError" THEN 2 ELSE 1)
                    ELSE IF iterations[f] + 1 = Len(domains_to_update[f])
                    THEN CliReturn(f, IF ok THEN 0 ELSE 2)
                    ELSE UNCHANGED <<pc, fams, result, raised>>
    /\ UNCHANGED <<file, runs, budget, cfg, old_cache, current_ip,
                   domains_to_update, probe, saved, prev, loaded, getip,
                   exit_code>>

\* main, lines 244-255: the cache is saved, whatever it holds, and the process
\* exits with the code computed from the codes of the passes.
CliSave ==
    /\ pc = "cli_save"
    /\ file' = FileOf(new_cache)
    /\ saved' = TRUE
    /\ exit_code' = final_exit_code({result[f] : f \in Range(cfg.families)})
    /\ pc' = "exited"
    /\ UNCHANGED <<cf, runs, budget, cfg, old_cache, new_cache, zones_memo,
                   records_memo, fams, current_ip, domains_to_update, iterations,
                   success, result, raised, last, ops, wrote, statuses, probe,
                   prev, loaded, getip>>

NextCli ==
    \/ CliInvoke
    \/ CliProbeFails
    \/ CliProbeFailsDeleteMissing
    \/ CliProbeRaises
    \/ CliDeleteMissing
    \/ CliProbeSucceeds
    \/ CliUpdateDomains
    \/ CliSave

SpecCli == InitCli /\ [][NextCli]_vars

\* -------------------------------------------------------------- properties
\* The pass of family f is over: it returned a code or an exception left it.
PassOver(f) ==
    result[f] # NoResult \/ (raised # "none" /\ fams # <<>> /\ Head(fams) = f)
FamilyOfType(t) == IF t = "A" THEN "ipv4" ELSE "ipv6"
\* The stale domains of family f whose iteration wrote the new cache entry.
Succeeded(f) ==
    {domains_to_update[f][i] :
        i \in {j \in DOMAIN statuses[f] : statuses[f][j] = "done"}}

\* C1: a pass without --force that returned OK, then a second pass of the same
\* family on the cache file the first run left, observing the same address with
\* the same domains and proxied flag: the second pass makes no update_record and
\* no create_record call and returns OK.
C1_Idempotence ==
    \A f \in Families :
        (/\ runs >= 2
         /\ ~cfg.force
         /\ prev.raised = "none"
         /\ prev.result[f] = OK
         /\ prev.current_ip[f] # None
         /\ probe[f] = "ok"
         /\ current_ip[f] = prev.current_ip[f])
        => (wrote[f] = {} /\ ops[f] \cap WriteOps = {} /\ result[f] = OK)

\* C2: when the provider fails for some stale domains (debug off), every stale
\* domain is still attempted, the new cache lists exactly the domains whose write
\* succeeded, and the pass returns a code other than OK.
C2_FailureIsolation ==
    \A f \in Families :
        (/\ ~cfg.debug
         /\ probe[f] = "ok"
         /\ result[f] # NoResult
         /\ \E i \in DOMAIN statuses[f] : statuses[f][i] # "done")
        => /\ iterations[f] = Len(domains_to_update[f])
           /\ DOMAIN new_cache[f].updated_domains = Succeeded(f)
           /\ result[f] # OK

\* C3: a provider call of one domain that fails at transport level (debug off) is
\* that domain's failure only: the remaining stale domains are reconciled and the
\* pass returns the code of provider failures, not UNKNOWN_ERROR.
C3_TransportFailure ==
    \A f \in Families :
        (/\ ~cfg.debug
         /\ probe[f] = "ok"
         /\ result[f] # NoResult
         /\ \E i \in DOMAIN statuses[f] : statuses[f][i] = "raised")
        => /\ iterations[f] = Len(domains_to_update[f])
           /\ result[f] = LoopResult(FALSE)
           /\ result[f] # UNKNOWN_ERROR

\* The latest iteration: update_record with the cached ids was refused, the record
\* was then found and update_record with the looked-up ids succeeded.
FellBack ==
    /\ Len(last) = 4
    /\ last[1].op = "update_record" /\ last[1].out = "CloudFlareError"
    /\ last[3].out = "found"
    /\ last[4].op = "update_record" /\ last[4].out = "ok"

\* C4: after update_record with the cached ids fails with a CloudFlareError the
\* iteration goes on with get_zone_id and get_record_id; when the record is found
\* and the second update_record succeeds, that call and the new cache entry carry
\* the looked-up zone_id and record_id and the domain counts as succeeded.
C4_SelfHealing ==
    (last # <<>> /\ last[1].op = "update_record" /\ last[1].out = "CloudFlareError")
    => /\ Len(last) >= 2 /\ last[2].op = "get_zone_id"
       /\ last[2].out = "ok" => (Len(last) >= 3 /\ last[3].op = "get_record_id")
       /\ FellBack =>
            LET d == last[1].domain
                f == FamilyOfType(last[1].rtype)
            IN  /\ last[4].zone_id = last[2].zone_id
                /\ last[4].record_id = last[3].record_id
                /\ d \in DOMAIN new_cache[f].updated_domains
                /\ new_cache[f].updated_domains[d] =
                        ZoneRecord(last[2].zone_id, last[3].record_id, cfg.proxied)
                /\ statuses[f][Len(statuses[f])] = "done"

\* C4's case: the cached record_id is no longer the provider's, the fallback found
\* the new one and the new cache holds it.
C4_Witness ==
    /\ FellBack
    /\ last[3].record_id # last[1].record_id
    /\ new_cache[FamilyOfType(last[1].rtype)].updated_domains[last[1].domain].record_id
            = last[3].record_id

\* C5: with --force the stale domains are all the requested domains whatever the
\* old cache holds, and each of them gets a write call in the pass.
C5_ForceBypass ==
    \A f \in Families :
        (cfg.force /\ probe[f] = "ok")
        => /\ Range(domains_to_update[f]) = Range(cfg.domains)
           /\ result[f] # NoResult => wrote[f] = Range(cfg.domains)

\* C6: without --force and with the address of the old cache observed again, the
\* stale domains are the requested domains minus those cached with the requested
\* proxied flag: a domain cached with the other flag is selected, a cached domain
\* that is not requested is not.
C6_UnchangedAddressSelection ==
    \A f \in Families :
        (~cfg.force /\ probe[f] = "ok" /\ current_ip[f] = old_cache[f].address)
        => LET cached == old_cache[f].updated_domains
               up_to_date == {d \in DOMAIN cached : cached[d].proxied = cfg.proxied}
               todo == domains_to_update[f]
           IN  /\ Range(todo) = Range(cfg.domains) \ up_to_date
               /\ Len(todo) = Cardinality(Range(todo))
               /\ \A d \in Range(cfg.domains) \cap DOMAIN cached :
                    cached[d].proxied # cfg.proxied => d \in Range(todo)
               /\ \A d \in DOMAIN cached \ Range(cfg.domains) : d \notin Range(todo)

\* C6's case: "a" is cached with the other proxied flag and selected, "b" is
\* cached and not requested.
C6_Witness ==
    \E f \in Families :
        /\ ~cfg.force /\ probe[f] = "ok" /\ current_ip[f] = old_cache[f].address
        /\ "a" \in DOMAIN old_cache[f].updated_domains
        /\ old_cache[f].updated_domains["a"].proxied # cfg.proxied
        /\ "a" \in Range(domains_to_update[f])
        /\ "b" \in DOMAIN old_cache[f].updated_domains \ Range(cfg.domains)

\* The pass of family f is the delete pass: its probe failed with --delete-missing.
DeletePass(f) == probe[f] = "IPServiceError" /\ cfg.delete_missing

\* C7: when the probe of a family fails with --delete-missing, the pass calls
\* delete_record once for each requested domain with the family's record type,
\* makes no create or update call and returns OK; the new cache of the family then
\* has no address and no updated domains.
C7_DeleteMissingPass ==
    \A f \in Families :
        /\ (DeletePass(f) /\ pc = "deleting" /\ Head(fams) = f /\ last # <<>>)
           => /\ last[1].op = "delete_record"
              /\ last[1].rtype = FamilyRecordType(f)
              /\ last[1].domain = cfg.domains[iterations[f]]
        /\ (DeletePass(f) /\ PassOver(f))
           => /\ iterations[f] = Len(cfg.domains)
              /\ ops[f] \cap WriteOps = {}
              /\ result[f] = OK
              /\ new_cache[f] = IPCacheDefault

\* C8: in the delete pass a CloudFlareError of the delete_record call of one domain
\* does not leave the pass: the remaining domains follow and the pass returns OK.
C8_DeleteBestEffort ==
    \A f \in Families :
        (/\ DeletePass(f)
         /\ last # <<>>
         /\ last[1].op = "delete_record"
         /\ last[1].rtype = FamilyRecordType(f)
         /\ last[1].out = "CloudFlareError")
        => /\ raised = "none"
           /\ iterations[f] = Len(cfg.domains) => result[f] = OK

\* C9: when the probe fails without --delete-missing the pass returns
\* ExitCode.IP_SERVICE_ERROR (2), which is not the code of provider failures.
C9_ProbeFailureCode ==
    \A f \in Families :
        (probe[f] = "IPServiceError" /\ ~cfg.delete_missing /\ result[f] # NoResult)
        => (result[f] = IP_SERVICE_ERROR /\ result[f] # LoopResult(FALSE))

\* C10: the step in which the probe of a family fails without --delete-missing
\* ends the pass with a code; it makes no provider call and leaves the provider,
\* the old cache and the new cache as they were.
C10_ProbeFailureFrame ==
    [][\A f \in Families :
        (probe[f] = "none" /\ probe'[f] = "IPServiceError" /\ ~cfg.delete_missing)
        => /\ result'[f] # NoResult
           /\ pc' # "deleting"
           /\ last' = <<>>
           /\ ops' = ops /\ ops[f] = {}
           /\ cf' = cf
           /\ zones_memo' = zones_memo /\ records_memo' = records_memo
           /\ old_cache' = old_cache
           /\ new_cache' = new_cache]_vars

\* C10's case: the probe of a family with a populated old cache failed without
\* --delete-missing and the pass is over.
C10_Witness ==
    \E f \in Families :
        /\ probe[f] = "IPServiceError" /\ ~cfg.delete_missing
        /\ result[f] # NoResult
        /\ old_cache[f].updated_domains # EmptyDomains
        /\ ops[f] = {}

\* The stale domains of family f that were attempted and never succeeded.
Failed(f) ==
    {domains_to_update[f][i] : i \in DOMAIN statuses[f]} \ Succeeded(f)

\* C11: a pass whose probe succeeded and which no exception left returns OK exactly
\* when every stale domain succeeded, and ExitCode.CLOUDFLARE_ERROR (3) when one
\* of them failed.
C11_PassResult ==
    \A f \in Families :
        (/\ probe[f] = "ok"
         /\ result[f] # NoResult
         /\ \A i \in DOMAIN statuses[f] : statuses[f][i] # "raised")
        => /\ result[f] = OK <=> \A i \in DOMAIN statuses[f] : statuses[f][i] = "done"
           /\ (\E i \in DOMAIN statuses[f] : statuses[f][i] = "failed")
                => result[f] = CLOUDFLARE_ERROR

\* C14: in the new cache handed to persistence every domain of updated_domains had
\* a successful write in the pass, made with the address the IPCache stores: the
\* address is set whenever updated_domains is not empty.
C14_IPCacheInvariant ==
    pc = "persist"
    => \A f \in Families :
          /\ DOMAIN new_cache[f].updated_domains \subseteq Succeeded(f)
          /\ DOMAIN new_cache[f].updated_domains # {}
                => (new_cache[f].address # None
                    /\ new_cache[f].address = current_ip[f])

\* C15: in the cache persisted after a pass a domain that failed has the entry the
\* old cache had for it (or none if it had none); only the domains that succeeded
\* have a new or changed entry.
C15_FailedKeepPrior ==
    (pc = "exited" /\ saved)
    => \A f \in Families :
          LET old == old_cache[f].updated_domains
              new == new_cache[f].updated_domains
          IN  /\ \A d \in Failed(f) :
                    /\ d \in DOMAIN new <=> d \in DOMAIN old
                    /\ d \in DOMAIN old => new[d] = old[d]
              /\ \A d \in DOMAIN new :
                    (d \notin DOMAIN old \/ new[d] # old[d]) => d \in Succeeded(f)

\* C20: create_record is called only after get_record_id reported that the record
\* does not exist; when the record list could not be fetched nothing is created
\* and the domain counts as failed.
C20_CreateOnlyOnNotFound ==
    \A i \in DOMAIN last :
        /\ last[i].op = "create_record"
            => (i > 1 /\ last[i - 1].op = "get_record_id"
                      /\ last[i - 1].out = "notfound")
        /\ (last[i].op = "get_record_id" /\ last[i].out = "CloudFlareError")
            => /\ i = Len(last)
               /\ LET f == FamilyOfType(last[i].rtype)
                  IN  statuses[f][Len(statuses[f])] = "failed"

C17_LoadNeverFails ==
    [][(/\ pc = "exited" /\ pc' = "probe"
        /\ ~cfg.cache_force
        /\ file.state \in {"missing", "invalid"})
       => /\ old_cache' = CacheDefault
          /\ new_cache' = CacheDefault
          /\ file'.state = "missing"
          /\ raised' = "none"
          /\ result' = NoResults]_vars

\* C17's case: load found an unparseable file, deleted it and returned the default
\* Cache; the run goes on to the probe.
C17_Witness ==
    /\ loaded = "invalid"
    /\ pc = "probe"
    /\ file.state = "missing"
    /\ old_cache = CacheDefault

\* The place in the list of the first service that answers with an address of the
\* family (0: there is none).
FirstOfFamily(f, answers) ==
    IF \E i \in DOMAIN answers : answers[i] \in FamilyAddresses(f)
    THEN CHOOSE i \in DOMAIN answers :
            /\ answers[i] \in FamilyAddresses(f)
            /\ \A j \in 1..(i - 1) : answers[j] \notin FamilyAddresses(f)
    ELSE 0

\* C18: get_ipv4 / get_ipv6 returns the address of the first service in list order
\* that answers with a parseable address of the family, a wrong-family answer of
\* an earlier service counting as that service failing; it raises IPServiceError
\* only if no service answers so.
C18_ProbeOrdering ==
    getip.out \notin {"none", "pending"}
    => LET i == FirstOfFamily(getip.family, getip.answers)
       IN  /\ i # 0 => getip.out = getip.answers[i]
           /\ getip.out = "IPServiceError" => i = 0

\* C19: an unparseable body makes the probe go on to the next service; the only
\* exception the probe raises to the pass is IPServiceError, so nothing else
\* leaves _handle_update from the probe.
C19_ProbeRaisesOnlyIPServiceError ==
    /\ raised # "ValueError"
    /\ \A f \in Families : probe[f] \in {"none", "ok", "IPServiceError"}

\* C12 (persistence gating): when the driver has written the cache file, the new
\* cache is not empty and differs from the old cache snapshot. cli.main saves
\* unconditionally (line 245): with --force and a failing probe the empty cache
\* is written over the file.
C12_PersistenceGating ==
    (pc = "exited" /\ saved) =>
        (~is_empty(new_cache) /\ new_cache # old_cache)

\* The codes the requested family passes returned.
PassCodes == {result[f] : f \in Range(cfg.families)}

\* C13 (aggregate exit code): when the invocation has ended with an exit code,
\* the code is 0 iff every requested family pass returned 0, and otherwise it is
\* the least of the non-zero codes the passes returned.
C13_AggregateExitCode ==
    (pc = "exited" /\ exit_code # NoResult) =>
        /\ exit_code = 0 <=> PassCodes = {0}
        /\ exit_code # 0 =>
              /\ exit_code \in PassCodes \ {0}
              /\ \A c \in PassCodes \ {0} : exit_code <= c

\* Both families fail with different codes, the probe of ipv4 (3) and the
\* provider of ipv6 (1 or 2), and the invocation exits with the lower one.
C13_Witness ==
    /\ pc = "exited"
    /\ result["ipv4"] = 3
    /\ result["ipv6"] \in {1, 2}
    /\ exit_code = result["ipv6"]

\* C21 (debug rethrow): when the reconciliation of a stale domain failed with a
\* provider error (get_zone_id, create_record or the update_record with the
\* looked-up ids raised CloudFlareError), with --debug the error leaves the pass
\* and without it the pass returns CLOUDFLARE_ERROR. _update_domains catches
\* every CloudFlareError itself, so the `raise` of line 78 is never reached.
C21_DebugRethrow ==
    \A f \in Families :
        (probe[f] = "ok" /\ "failed" \in Range(statuses[f]))
        => IF cfg.debug
           THEN raised = "CloudFlareError"
           ELSE result[f] # NoResult => result[f] = CLOUDFLARE_ERROR

\* C22 (the old cache is read-only): no step of a pass (address recording, domain
\* selection, reconciliation of a domain, delete-missing, the end of the run)
\* changes the old cache; only the load of a new invocation sets it.
C22_OldCacheReadOnly == [][runs' = runs => old_cache' = old_cache]_vars

\* C22's case: both caches were default-constructed by load (no cache file), the
\* pass has written an address and a domain to the new cache and the old cache
\* is still the default one.
C22_Witness ==
    /\ loaded = "missing"
    /\ old_cache = CacheDefault
    /\ new_cache["ipv4"].address # None
    /\ new_cache["ipv4"].updated_domains # EmptyDomains
    /\ pc = "exited"

\* C26 (address recording): after a successful probe, new_cache.address is the
\* observed address iff that differs from old_cache.address and is not written
\* (None) otherwise, from the probe on and whatever the domain updates do.
C26_AddressRecording ==
    \A f \in Families :
        probe[f] = "ok"
        => new_cache[f].address =
              IF current_ip[f] # old_cache[f].address THEN current_ip[f] ELSE None

\* C26's case: the address changed, every domain update of the pass failed and
\* the new cache still holds the new address.
C26_Witness ==
    \E f \in Families :
        /\ probe[f] = "ok"
        /\ old_cache[f].address # None
        /\ current_ip[f] # old_cache[f].address
        /\ result[f] = LoopResult(FALSE)
        /\ statuses[f] # <<>>
        /\ \A i \in DOMAIN statuses[f] : statuses[f][i] = "failed"
        /\ new_cache[f].address = current_ip[f]
        /\ new_cache[f].updated_domains = EmptyDomains

\* C23 (delete_record on an absent record): a delete_record call for a domain
\* that has no record of the type sends no DELETE request (the call carries no
\* record id) and, unless the zone or record lookup itself failed, returns
\* normally; for a record that exists the DELETE request sent names its id and
\* removes it.
C23_DeleteAbsentRecord ==
    [][pc = "deleting" =>
        LET f == Head(fams)
            d == cfg.domains[iterations[f] + 1]
            t == FamilyRecordType(f)
            c == last'[1]
        IN  /\ c.op = "delete_record" /\ c.domain = d /\ c.rtype = t
            /\ cf[d][t] <= 0 =>
                  /\ c.record_id = 0
                  /\ c.out \in {"absent", "CloudFlareError", "Exception"}
                  /\ c.out = "absent" => raised' = "none"
                  /\ cf' = cf
            /\ cf[d][t] > 0 =>
                  /\ c.record_id \in {0, cf[d][t]}
                  /\ c.out = "deleted" => cf'[d][t] <= 0]_vars

\* C24 (record-type mapping): get_record_type gives "A" for every IPv4 address
\* and "AAAA" for every IPv6 address, and every lookup or write of a pass carries
\* the record type of the family of the pass and, for a write, an address of
\* that family.
C24_RecordTypeMapping ==
    [][/\ \A ip \in IPv4Addresses : get_record_type(ip) = "A"
       /\ \A ip \in IPv6Addresses : get_record_type(ip) = "AAAA"
       /\ pc \in {"updating", "deleting"} =>
            \A i \in DOMAIN last' :
                /\ last'[i].rtype \in {"-", FamilyRecordType(Head(fams))}
                /\ last'[i].ip # "-" =>
                      /\ last'[i].ip \in FamilyAddresses(Head(fams))
                      /\ last'[i].rtype = get_record_type(last'[i].ip)]_vars

\* C24's case: the IPv6 pass created an AAAA record with an IPv6 address after
\* the IPv4 pass of the same invocation had written A records.
C24_Witness ==
    /\ result["ipv4"] = OK
    /\ wrote["ipv4"] # {}
    /\ \E i \in DOMAIN last :
          /\ last[i].op = "create_record"
          /\ last[i].rtype = "AAAA"
          /\ last[i].ip \in IPv6Addresses
          /\ last[i].out = "ok"

\* C25 (selection on address change): without --force, when the observed address
\* differs from old_cache.address (an old cache without address included), the
\* stale domains are the requested list, whatever old_cache.updated_domains holds.
C25_AddressChangeSelection ==
    \A f \in Families :
        (~cfg.force /\ probe[f] = "ok" /\ current_ip[f] # old_cache[f].address)
        => domains_to_update[f] = cfg.domains

\* C25's case: "a" is cached with the requested proxied flag under another
\* address and is selected all the same.
C25_Witness ==
    \E f \in Families :
        /\ ~cfg.force /\ probe[f] = "ok"
        /\ old_cache[f].address # None
        /\ current_ip[f] # old_cache[f].address
        /\ "a" \in DOMAIN old_cache[f].updated_domains
        /\ old_cache[f].updated_domains["a"].proxied = cfg.proxied
        /\ "a" \in Range(domains_to_update[f])

\* C27 (no-op path): when no domain is stale the pass returns OK, has made no
\* provider call and has put no entry into new_cache.updated_domains.
C27_NoOpPath ==
    \A f \in Families :
        (probe[f] = "ok" /\ domains_to_update[f] = <<>>)
        => /\ result[f] = OK
           /\ ops[f] = {}
           /\ iterations[f] = 0
           /\ new_cache[f].updated_domains = EmptyDomains

\* C27's case: every requested domain is up to date in the old cache for the
\* observed address and the pass has returned.
C27_Witness ==
    \E f \in Families :
        /\ ~cfg.force /\ probe[f] = "ok"
        /\ current_ip[f] = old_cache[f].address
        /\ Range(cfg.domains) \subseteq DOMAIN old_cache[f].updated_domains
        /\ domains_to_update[f] = <<>>
        /\ result[f] = OK

\* C28 (fast path): for a stale domain with an entry in the old cache the first
\* provider call of its iteration is update_record with the cached zone_id and
\* record_id and the requested proxied flag; when that call succeeds it is the
\* only call for the domain and the new cache entry holds the cached ids and the
\* requested proxied flag.
C28_FastPath ==
    [][pc = "updating" =>
        LET f == Head(fams)
            d == domains_to_update[f][iterations[f] + 1]
            cached == old_cache[f].updated_domains
        IN  d \in DOMAIN cached =>
              /\ last' # <<>>
              /\ last'[1].op = "update_record"
              /\ last'[1].domain = d
              /\ last'[1].ip = current_ip[f]
              /\ last'[1].zone_id = cached[d].zone_id
              /\ last'[1].record_id = cached[d].record_id
              /\ last'[1].proxied = cfg.proxied
              /\ last'[1].out = "ok" =>
                    /\ Len(last') = 1
                    /\ d \in DOMAIN new_cache'[f].updated_domains
                    /\ new_cache'[f].updated_domains[d] =
                          ZoneRecord(cached[d].zone_id, cached[d].record_id,
                                     cfg.proxied)]_vars

\* C28's case: the domain is cached with the other proxied flag, update_record
\* with the cached ids succeeded as the only call and the new entry holds the
\* cached ids with the requested flag.
C28_Witness ==
    /\ Len(last) = 1
    /\ last[1].op = "update_record"
    /\ last[1].out = "ok"
    /\ LET f == FamilyOfType(last[1].rtype)
           d == last[1].domain
       IN  /\ d \in DOMAIN old_cache[f].updated_domains
           /\ old_cache[f].updated_domains[d].proxied # cfg.proxied
           /\ d \in DOMAIN new_cache[f].updated_domains
           /\ new_cache[f].updated_domains[d] =
                 ZoneRecord(old_cache[f].updated_domains[d].zone_id,
                            old_cache[f].updated_domains[d].record_id, cfg.proxied)

\* C29 (zone lookup failure is terminal): when get_zone_id fails in the
\* iteration of a stale domain, it is the last provider call of the iteration
\* (no get_record_id, update_record or create_record follows), the iteration
\* writes no entry to the new cache, and the pass does not return OK.
C29_ZoneFailureTerminal ==
    [][pc = "updating" =>
        LET f == Head(fams)
        IN  /\ \A i \in DOMAIN last' :
                (last'[i].op = "get_zone_id" /\ last'[i].out # "ok")
                => /\ i = Len(last')
                   /\ new_cache' = new_cache
                   /\ last'[i].out = "CloudFlareError" => ~success'
                   /\ last'[i].out # "CloudFlareError" =>
                         (raised' # "none" \/ result'[f] = UNKNOWN_ERROR)
            /\ (~success' /\ pc' # "updating" /\ raised' = "none")
                => result'[f] \notin {OK, NoResult}]_vars

\* C29's case: get_zone_id failed for the only stale domain, nothing followed,
\* the new cache has no entry for it and the pass returned a code other than OK.
C29_Witness ==
    /\ Len(last) = 1
    /\ last[1].op = "get_zone_id"
    /\ last[1].out = "CloudFlareError"
    /\ \E f \in Families :
          /\ domains_to_update[f] = <<last[1].domain>>
          /\ iterations[f] = 1
          /\ last[1].domain \notin DOMAIN new_cache[f].updated_domains
          /\ result[f] \notin {OK, NoResult}

\* C30 (slow path with an existing record): when get_record_id finds a record,
\* the next and last call of the iteration is update_record with the zone_id
\* get_zone_id returned and the record_id found, and create_record is not
\* called; when that update_record fails the iteration writes no entry to the
\* new cache and, for a CloudFlareError, the domain counts as failed.
C30_SlowPathExistingRecord ==
    [][pc = "updating" =>
        LET f == Head(fams)
        IN  \A i \in DOMAIN last' :
                (last'[i].op = "get_record_id" /\ last'[i].out = "found")
                => /\ i > 1 /\ last'[i - 1].op = "get_zone_id"
                   /\ Len(last') = i + 1
                   /\ last'[i + 1].op = "update_record"
                   /\ last'[i + 1].zone_id = last'[i - 1].zone_id
                   /\ last'[i + 1].record_id = last'[i].record_id
                   /\ last'[i + 1].ip = current_ip[f]
                   /\ "create_record" \notin OpsOf(last')
                   /\ last'[i + 1].out # "ok" => new_cache' = new_cache
                   /\ last'[i + 1].out = "CloudFlareError" =>
                         /\ ~success'
                         /\ statuses'[f][Len(statuses'[f])] = "failed"]_vars

\* C30's case: the record was found, update_record with the looked-up ids was
\* refused, no create_record followed and the domain has no entry in the new
\* cache.
C30_Witness ==
    /\ Len(last) = 3
    /\ last[1].op = "get_zone_id"
    /\ last[2].op = "get_record_id" /\ last[2].out = "found"
    /\ last[3].op = "update_record" /\ last[3].out = "CloudFlareError"
    /\ last[3].record_id = last[2].record_id
    /\ last[3].domain \notin
          DOMAIN new_cache[FamilyOfType(last[3].rtype)].updated_domains

\* The calls i < j of one iteration are the same update_record request.
SameUpdate(c1, c2) ==
    /\ c1.op = "update_record" /\ c2.op = "update_record"
    /\ c1.domain = c2.domain /\ c1.ip = c2.ip /\ c1.zone_id = c2.zone_id
    /\ c1.record_id = c2.record_id /\ c1.proxied = c2.proxied

\* C31 (no automatic retry): an iteration of the pass does not issue an
\* update_record that failed a second time with the same arguments, and makes no
\* create_record call for a domain that an earlier iteration of the pass has
\* already sent a write for (a domain listed twice). The fallback after a refused
\* update_record with the cached ids repeats the request when the lookup returns
\* the cached ids, and the memoised record list makes the second iteration of a
\* domain create its record again.
C31_NoRetry ==
    [][pc = "updating" =>
        LET f == Head(fams)
        IN  /\ \A i, j \in DOMAIN last' :
                (i < j /\ last'[i].out # "ok") => ~SameUpdate(last'[i], last'[j])
            /\ \A i \in DOMAIN last' :
                last'[i].op = "create_record" => last'[i].domain \notin wrote[f]]_vars

\* C32 (unknown errors): without --debug, an exception that is no CloudFlareError
\* raised in the iteration of a stale domain ends the loop but does not leave
\* the pass: the pass returns UNKNOWN_ERROR and the new cache holds the entries of the domains that
\* succeeded before it.
C32_UnknownError ==
    \A f \in Families :
        (~cfg.debug /\ probe[f] = "ok" /\ "raised" \in Range(statuses[f]))
        => /\ result[f] = UNKNOWN_ERROR
           /\ statuses[f][Len(statuses[f])] = "raised"
           /\ DOMAIN new_cache[f].updated_domains = Succeeded(f)
           /\ \A d \in Succeeded(f) :
                 new_cache[f].updated_domains[d].proxied = cfg.proxied

\* C32's case: the first stale domain succeeded, the second one raised, the pass
\* returned 1 and the entry of the first is in the new cache.
C32_Witness ==
    \E f \in Families :
        /\ ~cfg.debug
        /\ statuses[f] = <<"done", "raised">>
        /\ result[f] = UNKNOWN_ERROR
        /\ raised = "none"
        /\ domains_to_update[f][1] # domains_to_update[f][2]
        /\ DOMAIN new_cache[f].updated_domains = {domains_to_update[f][1]}

\* C33 (ordering within one invocation): the IPv6 pass makes its probe and its
\* provider calls only when the IPv4 pass, if requested, has returned; the cache
\* is saved only when every requested family pass has returned, and once saved
\* the file is not written again in the invocation.
C33_Ordering ==
    [][/\ (probe'["ipv6"] # "none" \/ ops'["ipv6"] # {})
            => ("ipv4" \in Range(cfg'.families) => result'["ipv4"] # NoResult)
       /\ saved' => \A f \in Range(cfg'.families) : result'[f] # NoResult
       /\ (saved /\ runs' = runs) => file' = file]_vars

\* C33's case: both families were requested, the IPv4 pass returned, the IPv6
\* pass made provider calls and returned, and the cache was saved.
C33_Witness ==
    /\ cfg.families = <<"ipv4", "ipv6">>
    /\ ops["ipv4"] # {} /\ result["ipv4"] # NoResult
    /\ ops["ipv6"] # {} /\ result["ipv6"] # NoResult
    /\ saved
    /\ pc = "exited"

\* C34 (termination): a pass that has started ends, with a result code or with
\* an exception that leaves it, whatever the probe and the provider answer; it
\* makes at most one iteration per domain of its list and at most four provider
\* calls per iteration.
C34_Termination ==
    /\ \A f \in Families :
          (pc = "probe" /\ fams # <<>> /\ Head(fams) = f) ~> PassOver(f)
    /\ [](\A f \in Families :
            /\ iterations[f] <= Len(cfg.domains)
            /\ Len(last) <= 4)

\* C34's case: a pass over two stale domains, one failed and one written, has
\* returned.
C34_Witness ==
    \E f \in Families :
        /\ Len(domains_to_update[f]) >= 2
        /\ iterations[f] = Len(domains_to_update[f])
        /\ "failed" \in Range(statuses[f])
        /\ "done" \in Range(statuses[f])
        /\ result[f] # NoResult

\* C35 (convergence): once the probe keeps returning the same address and the
\* provider works, with the same domains, proxied flag and no --force, from some
\* invocation on no invocation makes a provider write and every pass returns OK.
C35_Convergence ==
    <>[](\A f \in Families : wrote[f] = {} /\ result[f] \in {NoResult, OK})

\* C36 (no stale cache after deletion): when the previous invocation ran the
\* delete pass of a family (its probe failed with --delete-missing and the pass
\* returned OK) and the probe of the family now succeeds, every requested domain
\* is stale again and, when the pass returns OK, has got a provider write.
C36_NoStaleCacheAfterDeletion ==
    \A f \in Families :
        (/\ runs >= 2
         /\ cfg.delete_missing
         /\ prev.raised = "none"
         /\ prev.result[f] = OK
         /\ prev.current_ip[f] = None
         /\ probe[f] = "ok")
        => /\ Range(domains_to_update[f]) = Range(cfg.domains)
           /\ result[f] = OK => wrote[f] = Range(cfg.domains)

\* C37 (up-to-date entries survive a partial update): after a pass without
\* --force with an unchanged address in which some requested domains were stale
\* and others up to date in the old cache, the new cache of the family has the
\* current address, the entries of the up-to-date domains as they were, and the
\* entries of the domains written in the pass.
C37_UpToDateEntriesSurvive ==
    \A f \in Families :
        LET cached == old_cache[f].updated_domains
            up_to_date == {d \in Range(cfg.domains) \cap DOMAIN cached :
                              cached[d].proxied = cfg.proxied}
        IN  (/\ ~cfg.force
             /\ probe[f] = "ok"
             /\ current_ip[f] = old_cache[f].address
             /\ domains_to_update[f] # <<>>
             /\ up_to_date # {}
             /\ result[f] # NoResult)
            => /\ new_cache[f].address = current_ip[f]
               /\ \A d \in up_to_date :
                     /\ d \in DOMAIN new_cache[f].updated_domains
                     /\ new_cache[f].updated_domains[d] = cached[d]
               /\ Succeeded(f) \subseteq DOMAIN new_cache[f].updated_domains

\* C38 (family isolation): no step of the pass of one family changes the IPCache
\* of the other family, in the old cache or in the new one, whatever the outcome
\* of the step.
C38_FamilyIsolation ==
    [][(pc = "probe" \/ pc = "updating" \/ pc = "deleting") =>
        \A g \in Families \ {Head(fams)} :
            /\ new_cache'[g] = new_cache[g]
            /\ old_cache'[g] = old_cache[g]]_vars

\* C38's case: the IPv4 pass wrote an address and a domain to its IPCache, the
\* IPv6 pass then changed its own IPCache and ended without OK, and the IPv4
\* IPCache is as the IPv4 pass left it.
C38_Witness ==
    /\ cfg.families = <<"ipv4", "ipv6">>
    /\ result["ipv4"] = OK
    /\ current_ip["ipv4"] # None
    /\ new_cache["ipv4"].address = current_ip["ipv4"]
    /\ DOMAIN new_cache["ipv4"].updated_domains = Range(cfg.domains)
    /\ new_cache["ipv6"].address # None
    /\ new_cache["ipv6"].updated_domains = EmptyDomains
    /\ result["ipv6"] \notin {OK, NoResult}

====
